---------------------------- MODULE Spec2Model ----------------------------
(***************************************************************************)
(* Model of streamlit_app.py: the OCR stage (perform_ocr), the structured  *)
(* extraction stage (analyze_text_with_ai) and the two button handlers of  *)
(* the Streamlit script that drive them through st.session_state.          *)
(*                                                                         *)
(* Strings are sequences of tokens.  A token is one character ("a", " ",   *)
(* "\n") or an indivisible literal piece of a marker / a response.  None   *)
(* is the empty sequence and a present value x is the one-element sequence *)
(* <<x>>, so that an Optional never compares values of different shapes.   *)
(***************************************************************************)
EXTENDS Integers, Sequences, FiniteSets, TLC

VARIABLES
    uploaded_file,           \* st.file_uploader value: None or Some(document)
    last_uploaded_filename,  \* st.session_state.last_uploaded_filename
    api_key_input,           \* sidebar text input
    ocr_text,                \* st.session_state.ocr_text
    structured_data,         \* st.session_state.structured_data
    ocr_run,                 \* observation of the last perform_ocr call
    ai_args,                 \* arguments of the last analyze_text_with_ai call
    ai_run,                  \* observation of the last analyze_text_with_ai call
    report,                  \* what the analyze handler told the user, 357-360
    genai_key,               \* the key genai.configure stored for the process
    runs                     \* analyze_text_with_ai calls in progress, by thread

vars == <<uploaded_file, last_uploaded_filename, api_key_input, ocr_text,
          structured_data, ocr_run, ai_args, ai_run, report, genai_key, runs>>

---------------------------------------------------------------------------
(* Bounds *)

MaxPages == 3

\* how many successive service answers an environment scripts
MaxScript == 3

---------------------------------------------------------------------------
(* Optional values and text helpers *)

None == <<>>

Some(x) == <<x>>

\* no analyze_text_with_ai call is in progress in another thread
NoRuns == <<>>

SeqsUpTo(S, n) == UNION {[1..k -> S] : k \in 0..n}

IsSpace(t) == t \in {" ", "\n"}

\* str.strip(): drop leading and trailing whitespace
Strip(s) ==
    LET idx == {k \in 1..Len(s) : ~IsSpace(s[k])} IN
    IF idx = {} THEN <<>>
    ELSE LET lo == CHOOSE k \in idx : \A j \in idx : k <= j
             hi == CHOOSE k \in idx : \A j \in idx : k >= j
         IN SubSeq(s, lo, hi)

RECURSIVE Join(_, _)
\* sep.join(list)
Join(list, sep) ==
    IF list = <<>> THEN <<>>
    ELSE IF Len(list) = 1 THEN list[1]
    ELSE list[1] \o sep \o Join(Tail(list), sep)

\* sub occurs in s as a contiguous run of tokens
Contains(s, sub) ==
    \E k \in 0..(Len(s) - Len(sub)) : SubSeq(s, k + 1, k + Len(sub)) = sub

Digit(n) ==
    CASE n = 1 -> "1" [] n = 2 -> "2" [] n = 3 -> "3" [] n = 4 -> "4"
      [] n = 5 -> "5" [] n = 6 -> "6" [] n = 7 -> "7" [] n = 8 -> "8"
      [] OTHER -> "9"

\* number of characters of one token
TokLen(t) ==
    CASE t = "--- Pagina " -> 11
      [] t = " ---" -> 4
      [] t = ": Erro no OCR ---" -> 17
      [] OTHER -> 1

RECURSIVE CharLen(_)
\* len(s)
CharLen(s) == IF s = <<>> THEN 0 ELSE TokLen(Head(s)) + CharLen(Tail(s))

---------------------------------------------------------------------------
(* perform_ocr *)

ImageTypes == {"image/png", "image/jpeg", "image/jpg"}

PdfType == "application/pdf"

\* f"--- Página {i+1} ---\n{text}" ; i here is the 1-based page number
PageEntry(i, text) == <<"--- Pagina ", Digit(i), " ---", "\n">> \o text

\* f"--- Página {i+1}: Erro no OCR ---"
ErrorEntry(i) == <<"--- Pagina ", Digit(i), ": Erro no OCR ---">>

\* the engines' behaviour on one page image: what pytesseract.image_to_string
\* does with it
Recognized(text) == [kind |-> "ok", text |-> text]

NotFoundOutcome == [kind |-> "TesseractNotFoundError", text |-> <<>>]

TessErrorOutcome == [kind |-> "TesseractError", text |-> <<>>]

OtherErrorOutcome == [kind |-> "Exception", text |-> <<>>]

Call(fn, page) == [fn |-> fn, page |-> page]

Msg(level, text) == [level |-> level, text |-> text]

Result(image, text, calls, msgs) ==
    [image |-> image, text |-> text, calls |-> calls, msgs |-> msgs]

\* lines 49-54: RGBA, P and L are converted to RGB, any other mode is kept
convert_mode(mode) == IF mode \in {"RGBA", "P", "L"} THEN "RGB" ELSE mode

\* lines 96-99: the entry appended for a recognized page
recognized_entry(n, i, text) == IF n > 1 THEN PageEntry(i, text) ELSE text

\* faulty variant of except_clause: without the TesseractNotFoundError
\* clause, the missing engine is caught by "except Exception" like any error
except_clause_nonfatal(kind) ==
    IF kind = "TesseractError" THEN "append_tess" ELSE "append_other"

\* lines 100-108: which except clause handles a failed image_to_string
except_clause(kind) ==
    CASE kind = "TesseractNotFoundError" -> "return"
      [] kind = "TesseractError" -> "append_tess"
      [] OTHER -> "append_other"

\* faulty variant of failed_entry: a failure throws away the entries so far
failed_entry_discard(full_text_list, i) == <<ErrorEntry(i)>>

\* faulty variant of failed_entry: a failed page leaves no entry at all
failed_entry_silent(full_text_list, i) == full_text_list

\* lines 105 and 108: a failed page appends its error entry to the list
failed_entry(full_text_list, i) == Append(full_text_list, ErrorEntry(i))

\* lines 110-111: "\n\n".join(full_text_list), then strip()
combine(full_text_list) == Strip(Join(full_text_list, <<"\n", "\n">>))

RECURSIVE ocr_loop(_, _, _, _, _, _)
\* lines 89-111: the loop over images_to_process, from image i on
ocr_loop(images, i, full_text_list, display_image, calls, msgs) ==
    IF i > Len(images)
    THEN Result(display_image, Some(combine(full_text_list)), calls, msgs)
    ELSE
      LET out == images[i].ocr
          c   == Append(calls, Call("image_to_string", i))
      IN
      IF out.kind = "ok"
      THEN ocr_loop(images, i + 1,
                    Append(full_text_list,
                           recognized_entry(Len(images), i, out.text)),
                    display_image, c, msgs)
      ELSE IF except_clause(out.kind) = "return"
      THEN Result(None, None, c,
                  Append(msgs, Msg("error", "Tesseract nao encontrado")))
      ELSE IF except_clause(out.kind) = "append_tess"
      THEN ocr_loop(images, i + 1, failed_entry(full_text_list, i),
                    display_image, c,
                    Append(msgs, Msg("error", "Erro do Tesseract na imagem")))
      ELSE ocr_loop(images, i + 1, failed_entry(full_text_list, i),
                    display_image, c,
                    Append(msgs, Msg("error", "Erro inesperado durante o OCR")))

\* lines 83-111: the part of perform_ocr after images_to_process is filled
ocr_stage(images, display_image, calls, msgs) ==
    IF images = <<>>
    THEN Result(display_image, Some(<<>>), calls,
                Append(msgs, Msg("warning", "Nenhuma imagem encontrada")))
    ELSE ocr_loop(images, 1, <<>>, display_image, calls,
                  Append(msgs, Msg("info", "Realizando OCR")))

\* faulty variant of pdf_empty_result: the empty list falls through to the
\* "if not images_to_process" branch of line 83 and returns ""
pdf_empty_as_success(calls, msgs) ==
    Result(None, Some(<<>>), calls,
           Append(msgs, Msg("warning", "Nenhuma imagem encontrada")))

\* lines 69-71: convert_from_bytes returned an empty list
pdf_empty_result(calls, msgs) ==
    Result(None, None, calls,
           Append(msgs, Msg("warning", "pdf2image retornou lista vazia")))

\* lines 72-78: convert_from_bytes raised
pdf_error_result(raster, calls, msgs) ==
    Result(None, None, calls,
           Append(msgs,
                  IF raster = "poppler"
                  THEN Msg("error", "Dependencia poppler nao encontrada")
                  ELSE Msg("error", "Erro inesperado ao converter PDF")))

\* lines 79-81
unsupported_result(file_type) ==
    Result(None, None, <<>>, <<Msg("error", "Tipo de arquivo nao suportado")>>)

\* faulty variant of is_image_type: any image/* type is taken for an image
is_image_type_any_image(file_type) ==
    file_type \in ImageTypes \cup {"image/gif"}

\* line 46: file_type in ['image/png', 'image/jpeg', 'image/jpg']
is_image_type(file_type) == file_type \in ImageTypes

\* lines 34-127.  file_bytes says what the engines do with the bytes:
\*   image  : the mode Image.open decodes them to, or "corrupt" when it raises
\*   raster : "ok" when convert_from_bytes returns, "poppler" / "error" when
\*            it raises with / without a poppler message
\*   pages  : the page images' recognition outcomes, in page order
perform_ocr(file_bytes, file_type) ==
    IF is_image_type(file_type)
    THEN
      LET calls == <<Call("Image.open", 0)>> IN
      IF file_bytes.image = "corrupt"
      THEN \* Image.open raises: the outer "except Exception", lines 125-127
           Result(None, None, calls,
                  <<Msg("error", "erro inesperado durante o processamento OCR")>>)
      ELSE
        LET image == [mode |-> convert_mode(file_bytes.image),
                      ocr |-> file_bytes.pages[1]]
        IN ocr_stage(<<image>>, Some(image), calls, <<>>)
    ELSE IF file_type = PdfType
    THEN
      LET calls == <<Call("convert_from_bytes", 0)>>
          msgs  == <<Msg("info", "Convertendo PDF para imagens")>>
      IN
      IF file_bytes.raster = "ok"
      THEN
        LET pdf_images == [k \in 1..Len(file_bytes.pages) |->
                              [mode |-> "RGB", ocr |-> file_bytes.pages[k]]]
        IN IF pdf_images # <<>>
           THEN ocr_stage(pdf_images, Some(pdf_images[1]), calls, msgs)
           ELSE pdf_empty_result(calls, msgs)
      ELSE pdf_error_result(file_bytes.raster, calls, msgs)
    ELSE unsupported_result(file_type)

---------------------------------------------------------------------------
(* analyze_text_with_ai *)

\* len(text.strip()) < 10, line 144
MinTextLen == 10

\* A Python value passed as text: a str (s), None, or an int (n)
PyStr(s) == [type |-> "str", s |-> s, n |-> 0]

PyNone == [type |-> "NoneType", s |-> <<>>, n |-> 0]

PyInt(n) == [type |-> "int", s |-> <<>>, n |-> n]

\* Python truthiness of such a value ("not text")
Truthy(v) ==
    CASE v.type = "str" -> v.s # <<>>
      [] v.type = "int" -> v.n # 0
      [] OTHER -> FALSE

\* A JSON / Python value returned to the caller: a dict (items maps its keys
\* to the JSON text of their values) or anything else (scalar holds its text)
EmptyItems == [k \in {} |-> ""]

Dict(items) == [kind |-> "dict", items |-> items, scalar |-> ""]

NonDict(kind, txt) == [kind |-> kind, items |-> EmptyItems, scalar |-> txt]

\* {"Erro": msg}
ErroDict(msg) == Dict([k \in {"Erro"} |-> msg])

HasErro(v) == v.kind = "dict" /\ "Erro" \in DOMAIN v.items

ApiCall(fn, key) == [fn |-> fn, key |-> key]

\* what a call returns (value) and what it does on the way: the calls to the
\* client library, the st.error / st.warning messages, and the text it shows
\* with st.code (line 219), None when it shows none
AiResult(value, calls, msgs) ==
    [value |-> value, calls |-> calls, msgs |-> msgs, shown |-> None]

\* what the service does with one generate_content call
Response(via, text) == [kind |-> "response", via |-> via, text |-> text, error |-> ""]

ServiceError(class) == [kind |-> "error", via |-> "", text |-> <<>>, error |-> class]

\* the exceptions of google.api_core that lines 227-238 name, GoogleAPIError
\* for any other API error, Exception for a failure that is no API error
ApiErrorClasses ==
    {"NotFound", "PermissionDenied", "InvalidArgument", "ResourceExhausted",
     "DeadlineExceeded", "GoogleAPIError"}

\* the JSON documents a response may carry, each one token, and their values
JsonTokens ==
    {"{}", "{\"cpf\": \"123\"}", "{\"cpf\": null}", "[]", "null",
     "{\"cpf\": \"\"}", "{\"cpf\": 0}", "{\"cpf\": false}",
     "{\"cpf\": \"123\", \"nacionalidade\": null}",
     "{\"cpf\": \"123\", \"Erro\": \"x\"}",
     "{\"cpf\": \"123\", \"nome_social\": \"y\"}",
     "\"abc\"", "7"}

Items1(k, v) == [x \in {k} |-> v]

Items2(k1, v1, k2, v2) == [x \in {k1, k2} |-> IF x = k1 THEN v1 ELSE v2]

json_value(tok) ==
    CASE tok = "{}" -> Dict(EmptyItems)
      [] tok = "{\"cpf\": \"123\"}" -> Dict([k \in {"cpf"} |-> "\"123\""])
      [] tok = "{\"cpf\": null}" -> Dict([k \in {"cpf"} |-> "null"])
      [] tok = "[]" -> NonDict("list", "[]")
      [] tok = "{\"cpf\": \"\"}" -> Dict(Items1("cpf", "\"\""))
      [] tok = "{\"cpf\": 0}" -> Dict(Items1("cpf", "0"))
      [] tok = "{\"cpf\": false}" -> Dict(Items1("cpf", "false"))
      [] tok = "{\"cpf\": \"123\", \"nacionalidade\": null}"
           -> Dict(Items2("cpf", "\"123\"", "nacionalidade", "null"))
      [] tok = "{\"cpf\": \"123\", \"Erro\": \"x\"}"
           -> Dict(Items2("cpf", "\"123\"", "Erro", "\"x\""))
      [] tok = "{\"cpf\": \"123\", \"nome_social\": \"y\"}"
           -> Dict(Items2("cpf", "\"123\"", "nome_social", "\"y\""))
      [] tok = "\"abc\"" -> NonDict("str", "\"abc\"")
      [] tok = "7" -> NonDict("int", "7")
      [] OTHER -> NonDict("NoneType", "null")

\* json.loads: surrounding whitespace is allowed, anything but exactly one
\* document raises JSONDecodeError
json_loads(s) ==
    LET b == Strip(s) IN
    IF Len(b) = 1 /\ b[1] \in JsonTokens
    THEN [ok |-> TRUE, value |-> json_value(b[1])]
    ELSE [ok |-> FALSE, value |-> NonDict("NoneType", "null")]

RECURSIVE LStrip(_)
LStrip(s) == IF s # <<>> /\ IsSpace(Head(s)) THEN LStrip(Tail(s)) ELSE s

RECURSIVE RStrip(_)
RStrip(s) ==
    IF s # <<>> /\ IsSpace(s[Len(s)]) THEN RStrip(SubSeq(s, 1, Len(s) - 1)) ELSE s

\* line 209: re.sub(r'^[fence]json\s*', '', response_text.strip(), re.IGNORECASE)
\* (the token "[fence]" stands for the three backquotes of a code fence)
strip_open_fence(response_text) ==
    LET t == Strip(response_text) IN
    IF Len(t) >= 2 /\ t[1] = "[fence]" /\ t[2] \in {"json", "JSON"}
    THEN LStrip(SubSeq(t, 3, Len(t)))
    ELSE t

\* line 210: re.sub(r'\s*[fence]$', '', response_text.strip())
strip_close_fence(response_text) ==
    LET t == Strip(response_text) IN
    IF t # <<>> /\ t[Len(t)] = "[fence]"
    THEN RStrip(SubSeq(t, 1, Len(t) - 1))
    ELSE t

\* line 141
credential_missing(api_key) == api_key = ""

\* faulty variant of text_insufficient: the length is taken before trimming
text_insufficient_unstripped(text) ==
    \/ ~Truthy(text)
    \/ text.type # "str"
    \/ CharLen(text.s) < MinTextLen

\* line 144: not text or not isinstance(text, str) or len(text.strip()) < 10
text_insufficient(text) ==
    \/ ~Truthy(text)
    \/ text.type # "str"
    \/ CharLen(Strip(text.s)) < MinTextLen

\* faulty variant of call_service: quota and deadline errors are retried, up
\* to three attempts in all
call_service_retry(service) ==
    LET transient(o) ==
            o.kind = "error" /\ o.error \in {"ResourceExhausted", "DeadlineExceeded"}
        last == IF Len(service) < 3 THEN Len(service) ELSE 3
        stop == {k \in 1..last : ~transient(service[k]) \/ k = last}
        n    == CHOOSE k \in stop : \A j \in stop : k <= j
    IN [outcome |-> service[n], attempts |-> n]

\* faulty variant of call_service: any failed call is tried again, up to
\* three attempts in all
call_service_retry_any(service) ==
    LET last == IF Len(service) < 3 THEN Len(service) ELSE 3
        stop == {k \in 1..last : service[k].kind # "error" \/ k = last}
        n    == CHOOSE k \in stop : \A j \in stop : k <= j
    IN [outcome |-> service[n], attempts |-> n]

\* lines 185-191: generate_content is called once; service lists what the
\* service would answer to successive calls
call_service(service) == [outcome |-> Head(service), attempts |-> 1]

api_error_message(class) ==
    CASE class = "NotFound" -> "Erro na API Google: NotFound"
      [] class = "PermissionDenied" -> "Erro na API Google: PermissionDenied"
      [] class = "InvalidArgument" -> "Erro na API Google: InvalidArgument"
      [] class = "ResourceExhausted" -> "Erro na API Google: ResourceExhausted"
      [] class = "DeadlineExceeded" -> "Erro na API Google: DeadlineExceeded"
      [] class = "GoogleAPIError" -> "Erro na API Google: GoogleAPIError"
      [] OTHER -> "Erro na API Gemini: Exception"

\* line 220
DecodeFailure == "Falha ao processar JSON da API. Verifique a resposta acima."

NoTextCaptured == <<"Nenhuma resposta de texto capturada">>

\* faulty variant of shown_code: the response text is never shown
shown_code_placeholder(response_text) == NoTextCaptured

\* line 219: st.code(response_text if ... and response_text else "Nenhuma
\* resposta de texto capturada"); response_text is what lines 209-210 left
shown_code(response_text) ==
    IF response_text # <<>> THEN response_text ELSE NoTextCaptured

\* lines 194-247: what is returned once generate_content has answered
handle_outcome(out, calls) ==
    IF out.kind = "error"
    THEN \* lines 221-247
         AiResult(ErroDict(api_error_message(out.error)), calls,
                  <<Msg("error", IF out.error \in ApiErrorClasses
                                 THEN "Erro na API Google durante a chamada"
                                 ELSE "Erro generico durante a chamada")>>)
    ELSE IF out.via = "none"
    THEN \* lines 200-206
         AiResult(ErroDict("Estrutura de resposta da API inesperada."), calls,
                  <<Msg("warning", "Estrutura de resposta inesperada")>>)
    ELSE
      LET parsed == json_loads(strip_close_fence(strip_open_fence(out.text))) IN
      IF parsed.ok
      THEN AiResult(parsed.value, calls, <<>>)
      ELSE \* lines 216-220
           [AiResult(ErroDict(DecodeFailure), calls,
                     <<Msg("error", "Erro ao decodificar a resposta JSON")>>)
              EXCEPT !.shown =
                Some(shown_code(strip_close_fence(strip_open_fence(out.text))))]

RECURSIVE Repeat(_, _)
Repeat(x, n) == IF n = 0 THEN <<>> ELSE <<x>> \o Repeat(x, n - 1)

\* lines 131-247.  env says what the surroundings do:
\*   genai     : whether the import of google.generativeai succeeded (19-27)
\*   configure : "ok", or "error" when genai.configure raises
\*   service   : the service's answers to successive generate_content calls
analyze_text_with_ai(text, api_key, env) ==
    IF ~env.genai
    THEN AiResult(ErroDict("Biblioteca 'google-generativeai' nao esta instalada."),
                  <<>>, <<>>)
    ELSE IF credential_missing(api_key)
    THEN AiResult(ErroDict("Chave da API do Gemini nao fornecida."), <<>>, <<>>)
    ELSE IF text_insufficient(text)
    THEN AiResult(ErroDict("Texto de entrada invalido ou muito curto para analise."),
                  <<>>, <<>>)
    ELSE IF env.configure # "ok"
    THEN AiResult(ErroDict("Falha ao configurar API Gemini"),
                  <<ApiCall("configure", api_key)>>,
                  <<Msg("error", "Erro ao configurar a API Gemini")>>)
    ELSE
      LET r == call_service(env.service) IN
      handle_outcome(r.outcome,
                     <<ApiCall("configure", api_key)>>
                       \o Repeat(ApiCall("generate_content", api_key), r.attempts))

---------------------------------------------------------------------------
(* The Streamlit script: session state and the two button handlers *)

\* lines 267-284: the user puts document d in the file uploader and the
\* script runs again; the state of the previous file is reset when the name
\* of the new one differs from the one remembered
Upload(d) ==
    /\ uploaded_file # Some(d)
    /\ uploaded_file' = Some(d)
    /\ IF Some(d.name) # last_uploaded_filename
       THEN /\ ocr_text' = None
            /\ structured_data' = None
            /\ last_uploaded_filename' = Some(d.name)
       ELSE UNCHANGED <<ocr_text, structured_data, last_uploaded_filename>>
    /\ UNCHANGED <<api_key_input, ocr_run, ai_args, ai_run, report, genai_key, runs>>

\* lines 267-288: the user takes the file out of the uploader; line 281 is
\* false without a file, so the session state stays
RemoveFile ==
    /\ uploaded_file # None
    /\ uploaded_file' = None
    /\ UNCHANGED <<last_uploaded_filename, api_key_input, ocr_text, structured_data,
                   ocr_run, ai_args, ai_run, report, genai_key, runs>>

\* lines 327-340: the handler of "1. Extrair Texto (OCR)"
stored_ocr_text(ocr_result) ==
    IF ocr_result # None
    THEN IF Strip(ocr_result[1]) # <<>> THEN Some(ocr_result[1]) ELSE Some(<<>>)
    ELSE None

\* faulty variant of OcrButton: line 329 is left out, the structured data of
\* the previous run stays
OcrButtonKeepsData ==
    /\ uploaded_file # None
    /\ LET f == uploaded_file[1]
           r == perform_ocr(f.bytes, f.type)
       IN /\ ocr_run' = Some(r)
          /\ ocr_text' = stored_ocr_text(r.text)
    /\ UNCHANGED <<uploaded_file, last_uploaded_filename, api_key_input,
                   structured_data, ai_args, ai_run, report, genai_key, runs>>

OcrButton ==
    /\ uploaded_file # None
    /\ LET f == uploaded_file[1]
           r == perform_ocr(f.bytes, f.type)
       IN /\ ocr_run' = Some(r)
          /\ ocr_text' = stored_ocr_text(r.text)
    /\ structured_data' = None
    /\ UNCHANGED <<uploaded_file, last_uploaded_filename, api_key_input,
                   ai_args, ai_run, report, genai_key, runs>>

\* the sidebar text input, lines 256-260
SetApiKey(k) ==
    /\ api_key_input # k
    /\ api_key_input' = k
    /\ UNCHANGED <<uploaded_file, last_uploaded_filename, ocr_text,
                   structured_data, ocr_run, ai_args, ai_run, report,
                   genai_key, runs>>

\* line 343
analysis_possible == ocr_text # None /\ api_key_input # ""

\* lines 148-152: genai.configure keeps the key for the whole process; the
\* key a call leaves behind, given the one it found
configured_key(prev, text, api_key, env) ==
    IF /\ env.genai
       /\ ~credential_missing(api_key)
       /\ ~text_insufficient(text)
       /\ env.configure = "ok"
    THEN Some(api_key)
    ELSE prev

\* line 356: json null is Python's None
stored_result(value) == IF value.kind = "NoneType" THEN None ELSE Some(value)

\* lines 357-360: st.error or st.success
handler_report(analysis_result) ==
    IF HasErro(analysis_result) THEN "error" ELSE "success"

\* faulty variant of AnalyzeButton: a failed analysis discards the OCR text
AnalyzeButtonDiscardsText(env) ==
    /\ uploaded_file # None
    /\ analysis_possible
    /\ LET r == analyze_text_with_ai(PyStr(ocr_text[1]), api_key_input, env) IN
         /\ ai_args' = Some([text |-> PyStr(ocr_text[1]),
                             api_key |-> api_key_input, env |-> env])
         /\ ai_run' = Some(r)
         /\ structured_data' = stored_result(r.value)
         /\ report' = Some(handler_report(r.value))
         /\ ocr_text' = IF HasErro(r.value) THEN None ELSE ocr_text
    /\ genai_key' = configured_key(genai_key, PyStr(ocr_text[1]), api_key_input, env)
    /\ UNCHANGED <<uploaded_file, last_uploaded_filename, api_key_input,
                   ocr_run, runs>>

\* lines 346-360: the handler of "2. Analisar Dados (Gemini API)"; the button
\* is disabled unless analysis_possible
AnalyzeButton(env) ==
    /\ uploaded_file # None
    /\ analysis_possible
    /\ LET r == analyze_text_with_ai(PyStr(ocr_text[1]), api_key_input, env) IN
         /\ ai_args' = Some([text |-> PyStr(ocr_text[1]),
                             api_key |-> api_key_input, env |-> env])
         /\ ai_run' = Some(r)
         /\ structured_data' = stored_result(r.value)
         /\ report' = Some(handler_report(r.value))
    /\ genai_key' = configured_key(genai_key, PyStr(ocr_text[1]), api_key_input, env)
    /\ UNCHANGED <<uploaded_file, last_uploaded_filename, api_key_input,
                   ocr_text, ocr_run, runs>>

\* lines 387-397: the keys of data_map, in its order
expected_keys ==
    <<"data_nascimento", "local_nascimento", "doc_identidade", "orgao_emissor",
      "cpf", "nacionalidade", "num_registro", "filiacao_mae", "filiacao_pai">>

SchemaKeys == {expected_keys[i] : i \in DOMAIN expected_keys}

data_map ==
    [k \in SchemaKeys |->
        CASE k = "data_nascimento" -> "Data de Nascimento"
          [] k = "local_nascimento" -> "Local de Nascimento"
          [] k = "doc_identidade" -> "Documento de Identidade"
          [] k = "orgao_emissor" -> "Orgao Emissor"
          [] k = "cpf" -> "CPF"
          [] k = "nacionalidade" -> "Nacionalidade"
          [] k = "num_registro" -> "Numero de Registro"
          [] k = "filiacao_mae" -> "Filiacao (Mae)"
          [] OTHER -> "Filiacao (Pai)"]

\* key.replace("_", " ").title() for the keys a response may carry
titled(key) ==
    CASE key = "Erro" -> "Erro"
      [] key = "nome_social" -> "Nome Social"
      [] OTHER -> key

\* line 401: data_map.get(key, key.replace("_", " ").title())
display_name(key) == IF key \in SchemaKeys THEN data_map[key] ELSE titled(key)

\* line 403: str(value) if value is not None else ""
value_str(v) ==
    CASE v = "null" -> ""
      [] v = "\"123\"" -> "123"
      [] v = "\"\"" -> ""
      [] v = "\"x\"" -> "x"
      [] v = "\"y\"" -> "y"
      [] v = "false" -> "False"
      [] OTHER -> v

\* faulty variant of value_truthy: every value but null counts
value_truthy_non_null(v) == v # "null"

\* line 409: if value
value_truthy(v) == v \notin {"null", "\"\"", "0", "false"}

Rendered(branch, fields, found_count, warning, missing_keys) ==
    [branch |-> branch, fields |-> fields, found_count |-> found_count,
     warning |-> warning, missing_keys |-> missing_keys]

\* faulty variant of render_dict: the fields are listed whatever the keys
render_dict_despite_error(d) ==
    LET found == {k \in DOMAIN d.items : value_truthy(d.items[k])} IN
    Rendered("fields",
             {[key |-> k, name |-> display_name(k), value |-> value_str(d.items[k])] :
                 k \in DOMAIN d.items},
             Cardinality(found), Cardinality(found) = 0,
             SelectSeq(expected_keys, LAMBDA k : k \notin DOMAIN d.items))

\* lines 384-419: the display of a dictionary
render_dict(d) ==
    IF "Erro" \in DOMAIN d.items
    THEN \* line 385: pass
         Rendered("pass", {}, 0, FALSE, <<>>)
    ELSE LET found == {k \in DOMAIN d.items : value_truthy(d.items[k])} IN
         Rendered("fields",
                  {[key |-> k, name |-> display_name(k),
                    value |-> value_str(d.items[k])] : k \in DOMAIN d.items},
                  Cardinality(found), Cardinality(found) = 0,
                  SelectSeq(expected_keys, LAMBDA k : k \notin DOMAIN d.items))

\* lines 382-423: what the page shows of st.session_state.structured_data
render(data) ==
    IF data = None THEN Rendered("nothing", {}, 0, FALSE, <<>>)
    ELSE IF data[1].kind = "dict" THEN render_dict(data[1])
    ELSE \* lines 420-423
         Rendered("not_dict", {}, 0, FALSE, <<>>)

\* a direct call of analyze_text_with_ai with the arguments in ai_args
Analyze ==
    /\ uploaded_file = None
    /\ ai_args # None
    /\ ai_run = None
    /\ ai_run' = Some(analyze_text_with_ai(ai_args[1].text, ai_args[1].api_key,
                                           ai_args[1].env))
    /\ genai_key' = configured_key(genai_key, ai_args[1].text, ai_args[1].api_key,
                                   ai_args[1].env)
    /\ UNCHANGED <<uploaded_file, last_uploaded_filename, api_key_input,
                   ocr_text, structured_data, ocr_run, ai_args, report, runs>>

---------------------------------------------------------------------------
(* analyze_text_with_ai step by step: Streamlit runs the script of every   *)
(* session in a thread of its own, all in one process, so the calls of two  *)
(* sessions interleave between the statements below                         *)

RunIds == {1, 2}

\* the call of thread r: its arguments, what its surroundings do, where it
\* stands and what it has done so far.
\*   answer   : None when the service never answers the request, Some(o) else
\*   deadline : whether the client library ends an unanswered call by itself
\*              (line 190: the real timeout depends on the library)
Run(text, api_key, genai, configure, answer, deadline) ==
    [pc |-> "start", text |-> text, api_key |-> api_key, genai |-> genai,
     configure |-> configure, answer |-> answer, deadline |-> deadline,
     request |-> None, calls |-> <<>>, result |-> None]

\* line 191: generate_content(prompt) with request_options left out, sent
\* with the credential the process holds at that moment
Request(key) == [fn |-> "generate_content", key |-> key, timeout |-> None]

\* lines 138-145
RunCheck(r) ==
    /\ runs[r].pc = "start"
    /\ LET u == runs[r]
           failed == \/ ~u.genai
                     \/ credential_missing(u.api_key)
                     \/ text_insufficient(u.text)
       IN runs' = [runs EXCEPT ![r] =
                     IF failed
                     THEN [u EXCEPT !.pc = "done",
                                    !.result = Some(analyze_text_with_ai(
                                        u.text, u.api_key,
                                        [genai |-> u.genai, configure |-> "ok",
                                         service |-> <<>>]))]
                     ELSE [u EXCEPT !.pc = "checked"]]
    /\ UNCHANGED <<uploaded_file, last_uploaded_filename, api_key_input, ocr_text,
                   structured_data, ocr_run, ai_args, ai_run, report, genai_key>>

\* lines 148-152
RunConfigure(r) ==
    /\ runs[r].pc = "checked"
    /\ LET u == runs[r] IN
       IF u.configure = "ok"
       THEN /\ genai_key' = Some(u.api_key)
            /\ runs' = [runs EXCEPT ![r] =
                          [u EXCEPT !.pc = "configured",
                                    !.calls = <<ApiCall("configure", u.api_key)>>]]
       ELSE /\ genai_key' = genai_key
            /\ runs' = [runs EXCEPT ![r] =
                          [u EXCEPT !.pc = "done",
                                    !.result = Some(analyze_text_with_ai(
                                        u.text, u.api_key,
                                        [genai |-> TRUE, configure |-> "error",
                                         service |-> <<>>]))]]
    /\ UNCHANGED <<uploaded_file, last_uploaded_filename, api_key_input, ocr_text,
                   structured_data, ocr_run, ai_args, ai_run, report>>

\* lines 185-191: the request goes out
RunSend(r) ==
    /\ runs[r].pc = "configured"
    /\ LET u == runs[r]
           k == genai_key[1]
       IN runs' = [runs EXCEPT ![r] =
                     [u EXCEPT !.pc = "waiting",
                               !.request = Some(Request(k)),
                               !.calls = u.calls \o <<ApiCall("generate_content", k)>>]]
    /\ UNCHANGED <<uploaded_file, last_uploaded_filename, api_key_input, ocr_text,
                   structured_data, ocr_run, ai_args, ai_run, report, genai_key>>

\* lines 192-247: the service has answered
RunReceive(r) ==
    /\ runs[r].pc = "waiting"
    /\ runs[r].answer # None
    /\ LET u == runs[r] IN
       runs' = [runs EXCEPT ![r] =
                  [u EXCEPT !.pc = "done",
                            !.result = Some(handle_outcome(u.answer[1], u.calls))]]
    /\ UNCHANGED <<uploaded_file, last_uploaded_filename, api_key_input, ocr_text,
                   structured_data, ocr_run, ai_args, ai_run, report, genai_key>>

\* lines 237-241: the unanswered call is ended by a deadline, which the
\* request does not carry and only the library may supply
RunDeadline(r) ==
    /\ runs[r].pc = "waiting"
    /\ runs[r].answer = None
    /\ runs[r].request[1].timeout # None \/ runs[r].deadline
    /\ LET u == runs[r] IN
       runs' = [runs EXCEPT ![r] =
                  [u EXCEPT !.pc = "done",
                            !.result = Some(handle_outcome(
                                ServiceError("DeadlineExceeded"), u.calls))]]
    /\ UNCHANGED <<uploaded_file, last_uploaded_filename, api_key_input, ocr_text,
                   structured_data, ocr_run, ai_args, ai_run, report, genai_key>>

RunStep(r) ==
    \/ RunCheck(r)
    \/ RunConfigure(r)
    \/ RunSend(r)
    \/ RunReceive(r)
    \/ RunDeadline(r)

---------------------------------------------------------------------------
(* Inputs *)

PageTexts == {<<>>, <<" ">>, <<"a">>, <<"a", " ">>}

PageOutcomes ==
    {Recognized(t) : t \in PageTexts}
      \cup {NotFoundOutcome, TessErrorOutcome, OtherErrorOutcome}

Modes == {"RGB", "RGBA", "P", "L", "CMYK"}

OtherTypes == {"image/gif", "text/plain"}

Bytes(image, raster, pages) == [image |-> image, raster |-> raster, pages |-> pages]

\* bytes of an image file: a decodable (or corrupt) image that is no PDF
ImageBytes ==
    {Bytes(m, "error", <<o>>) : m \in Modes, o \in PageOutcomes}
      \cup {Bytes("corrupt", "error", <<>>)}

\* bytes of a PDF file (or of what the rasterizer fails on): no image
PdfBytes ==
    {Bytes("corrupt", "ok", p) : p \in SeqsUpTo(PageOutcomes, MaxPages)}
      \cup {Bytes("corrupt", r, <<>>) : r \in {"poppler", "error"}}

Doc(name, type, bytes) == [name |-> name, type |-> type, bytes |-> bytes]

Docs ==
    {Doc("doc", t, b) : t \in ImageTypes, b \in ImageBytes}
      \cup {Doc("doc", PdfType, b) : b \in PdfBytes}
      \cup {Doc("doc", t, Bytes("corrupt", "error", <<>>)) : t \in OtherTypes}

Keys == {"", "key-1"}

Env(genai, configure, service) ==
    [genai |-> genai, configure |-> configure, service |-> service]

ValidJson == <<"{\"cpf\": \"123\"}">>

ServiceOutcomes ==
    {Response("text", ValidJson), ServiceError("ResourceExhausted"),
     ServiceError("DeadlineExceeded"), ServiceError("PermissionDenied"),
     ServiceError("Exception")}

Scripts == SeqsUpTo(ServiceOutcomes, MaxScript) \ {<<>>}

Envs == {Env(g, c, s) : g \in BOOLEAN, c \in {"ok", "error"}, s \in Scripts}

\* k spaces, n letters, m spaces
Padded(k, n, m) == Repeat(" ", k) \o Repeat("a", n) \o Repeat(" ", m)

TextLens == {0, 1, MinTextLen - 1, MinTextLen, MinTextLen + 1}

AnalyzeTexts ==
    {PyStr(Padded(k, n, m)) : k \in 0..1, n \in TextLens, m \in 0..1}
      \cup {PyNone, PyInt(0), PyInt(5)}

\* the environments the button handler meets in SpecOcr
HandlerEnvs ==
    {Env(TRUE, "ok", <<o>>) :
        o \in {Response("text", ValidJson), ServiceError("ResourceExhausted")}}

\* every answer lines 194-247 tell apart: a response with a text attribute,
\* one whose text is in candidates[0].content.parts, one with neither, each
\* API error class, and an exception that is no API error
AllServiceOutcomes ==
    {Response("text", ValidJson), Response("parts", ValidJson),
     Response("none", <<>>)}
      \cup {ServiceError(c) : c \in ApiErrorClasses \cup {"Exception"}}

ServiceScripts == SeqsUpTo(AllServiceOutcomes, MaxScript) \ {<<>>}

\* a text and a credential that pass the checks of lines 141-145
ValidText == PyStr(Padded(0, MinTextLen, 0))

\* the credentials of two sessions
RunKeys == {"key-1", "key-2"}

RunAnswers ==
    {None, Some(Response("text", ValidJson)), Some(ServiceError("PermissionDenied"))}

\* the calls a thread may be making
RunInputs ==
    {Run(t, k, g, c, a, d) :
        t \in {ValidText, PyStr(<<>>)}, k \in RunKeys \cup {""}, g \in {TRUE},
        c \in {"ok", "error"}, a \in RunAnswers, d \in BOOLEAN}

\* what the model may answer: a JSON document or something that is none,
\* with or without blanks around it
Contents ==
    {pre \o <<j>> \o post :
        j \in JsonTokens \cup {"x"}, pre \in {<<>>, <<" ">>},
        post \in {<<>>, <<"\n">>}}

\* how the answer is dressed: as it is, in a code fence without a tag, or in
\* a code fence tagged json
FenceTags == {"bare", "json", "JSON"}

Wrapped(tag, c) ==
    <<"[fence]">> \o (IF tag = "bare" THEN <<>> ELSE <<tag>>) \o <<"\n">>
      \o c \o <<"\n", "[fence]">>

ResponseTexts == Contents \cup {Wrapped(tag, c) : tag \in FenceTags, c \in Contents}

\* the documents of SpecSession: a two-page PDF whose text is long enough to
\* be analysed, an image whose text is too short, an image without text, and
\* a PDF that cannot be rasterized
SessionDocs ==
    {Doc("doc", PdfType,
         Bytes("corrupt", "ok", <<Recognized(<<"a">>), Recognized(<<"a">>)>>)),
     Doc("doc", "image/png", Bytes("RGB", "error", <<Recognized(<<"a">>)>>)),
     Doc("doc", "image/png", Bytes("RGB", "error", <<Recognized(<<>>)>>)),
     Doc("doc", PdfType, Bytes("corrupt", "poppler", <<>>))}

\* the answers of the service in SpecSession: every JSON document, text that
\* is no JSON, no text at all, a JSON document in a fence, a response
\* without text, an API error
SessionOutcomes ==
    {Response("text", <<j>>) : j \in JsonTokens \cup {"x"}}
      \cup {Response("text", <<>>), Response("text", Wrapped("json", ValidJson)),
            Response("text", <<" ", "x", "\n">>),
            Response("text", Wrapped("json", <<"x">>)),
            Response("text", Wrapped("bare", ValidJson)),
            Response("none", <<>>), ServiceError("PermissionDenied")}

SessionEnvs ==
    {Env(TRUE, c, <<o>>) : c \in {"ok", "error"}, o \in SessionOutcomes}

\* the documents the user may upload: two PDFs of two pages with different
\* texts and one that cannot be rasterized, each under either of two names
UploadNames == {"doc", "doc2"}

UploadBytes ==
    {Bytes("corrupt", "ok", <<Recognized(<<"a">>), Recognized(<<"a">>)>>),
     Bytes("corrupt", "ok", <<Recognized(<<"b">>), Recognized(<<"b">>)>>),
     Bytes("corrupt", "poppler", <<>>)}

UploadDocs == {Doc(n, PdfType, b) : n \in UploadNames, b \in UploadBytes}

---------------------------------------------------------------------------
(* Specifications *)

\* one uploaded document, then the buttons
InitOcr ==
    /\ uploaded_file \in {Some(d) : d \in Docs}
    /\ last_uploaded_filename = Some("doc")
    /\ api_key_input = ""
    /\ ocr_text = None
    /\ structured_data = None
    /\ ocr_run = None
    /\ ai_args = None
    /\ ai_run = None
    /\ report = None
    /\ genai_key = None
    /\ runs = NoRuns

NextOcr ==
    \/ OcrButton
    \/ \E k \in Keys : SetApiKey(k)
    \/ \E env \in HandlerEnvs : AnalyzeButton(env)

SpecOcr == InitOcr /\ [][NextOcr]_vars

\* analyze_text_with_ai called directly on drawn arguments
InitAnalyze ==
    /\ uploaded_file = None
    /\ last_uploaded_filename = None
    /\ api_key_input = ""
    /\ ocr_text = None
    /\ structured_data = None
    /\ ocr_run = None
    /\ ai_args \in {Some([text |-> t, api_key |-> k, env |-> e]) :
                       t \in AnalyzeTexts, k \in Keys, e \in Envs}
    /\ ai_run = None
    /\ report = None
    /\ genai_key = None
    /\ runs = NoRuns

NextAnalyze == Analyze

SpecAnalyze == InitAnalyze /\ [][NextAnalyze]_vars

\* analyze_text_with_ai called on a valid text and credential, the service
\* answering in every way the code tells apart
InitService ==
    /\ uploaded_file = None
    /\ last_uploaded_filename = None
    /\ api_key_input = ""
    /\ ocr_text = None
    /\ structured_data = None
    /\ ocr_run = None
    /\ ai_args \in {Some([text |-> ValidText, api_key |-> "key-1",
                          env |-> Env(TRUE, "ok", s)]) : s \in ServiceScripts}
    /\ ai_run = None
    /\ report = None
    /\ genai_key = None
    /\ runs = NoRuns

NextService == Analyze

SpecService == InitService /\ [][NextService]_vars

\* two sessions of the same process call analyze_text_with_ai, each with its
\* own credential
InitRuns ==
    /\ uploaded_file = None
    /\ last_uploaded_filename = None
    /\ api_key_input = ""
    /\ ocr_text = None
    /\ structured_data = None
    /\ ocr_run = None
    /\ ai_args = None
    /\ ai_run = None
    /\ report = None
    /\ genai_key = None
    /\ runs \in {u \in [RunIds -> RunInputs] : u[1].api_key # u[2].api_key}

NextRuns == \E r \in RunIds : RunStep(r)

\* every thread that can take a step eventually takes one
SpecRuns == InitRuns /\ [][NextRuns]_vars /\ \A r \in RunIds : WF_vars(RunStep(r))

\* analyze_text_with_ai called on a valid text and credential, the service
\* answering once with each response text
InitParse ==
    /\ uploaded_file = None
    /\ last_uploaded_filename = None
    /\ api_key_input = ""
    /\ ocr_text = None
    /\ structured_data = None
    /\ ocr_run = None
    /\ ai_args \in {Some([text |-> ValidText, api_key |-> "key-1",
                          env |-> Env(TRUE, "ok", <<Response(via, t)>>)]) :
                       via \in {"text", "parts"}, t \in ResponseTexts}
    /\ ai_run = None
    /\ report = None
    /\ genai_key = None
    /\ runs = NoRuns

NextParse == Analyze

SpecParse == InitParse /\ [][NextParse]_vars

\* one uploaded document, the two buttons and the key input, the service
\* answering the analysis in every way that matters to the page
InitSession ==
    /\ uploaded_file \in {Some(d) : d \in SessionDocs}
    /\ last_uploaded_filename = Some("doc")
    /\ api_key_input = ""
    /\ ocr_text = None
    /\ structured_data = None
    /\ ocr_run = None
    /\ ai_args = None
    /\ ai_run = None
    /\ report = None
    /\ genai_key = None
    /\ runs = NoRuns

NextSession ==
    \/ OcrButton
    \/ \E k \in Keys : SetApiKey(k)
    \/ \E env \in SessionEnvs : AnalyzeButton(env)

SpecSession == InitSession /\ [][NextSession]_vars

\* the whole script: a session that starts without a file, then uploads,
\* removals, the key input and the two buttons in any order
Init ==
    /\ uploaded_file = None
    /\ last_uploaded_filename = None
    /\ api_key_input = ""
    /\ ocr_text = None
    /\ structured_data = None
    /\ ocr_run = None
    /\ ai_args = None
    /\ ai_run = None
    /\ report = None
    /\ genai_key = None
    /\ runs = NoRuns

Next ==
    \/ \E d \in UploadDocs : Upload(d)
    \/ RemoveFile
    \/ OcrButton
    \/ \E k \in Keys : SetApiKey(k)
    \/ \E env \in HandlerEnvs : AnalyzeButton(env)

Spec == Init /\ [][Next]_vars

---------------------------------------------------------------------------
(* Vocabulary of the properties *)

TheFile == uploaded_file[1]

OcrDone == uploaded_file # None /\ ocr_run # None

OcrRun == ocr_run[1]

\* the page images document d hands to the recognition loop
OcrPages(d) ==
    IF d.type \in ImageTypes
    THEN IF d.bytes.image = "corrupt" THEN <<>> ELSE d.bytes.pages
    ELSE IF d.type = PdfType /\ d.bytes.raster = "ok" THEN d.bytes.pages
    ELSE <<>>

IsRecognized(o) == o.kind = "ok"

IsPageFailure(o) == o.kind \in {"TesseractError", "Exception"}

IsEngineMissing(o) == o.kind = "TesseractNotFoundError"

\* the pages image_to_string was called on, in call order
RECURSIVE RecognizedCalls(_)
RecognizedCalls(calls) ==
    IF calls = <<>> THEN <<>>
    ELSE IF Head(calls).fn = "image_to_string"
    THEN <<Head(calls).page>> \o RecognizedCalls(Tail(calls))
    ELSE RecognizedCalls(Tail(calls))

UpTo(n) == [k \in 1..n |-> k]

RemoteCalls(r) == {k \in DOMAIN r.calls : r.calls[k].fn = "generate_content"}

ConfigureCalls(r) == {k \in DOMAIN r.calls : r.calls[k].fn = "configure"}

MarkerTokens == {"--- Pagina ", " ---", ": Erro no OCR ---"}

PageMarker(i) == <<"--- Pagina ", Digit(i), " ---">>

\* the page numbers of the markers of s, in order of appearance
RECURSIVE MarkerPages(_)
MarkerPages(s) ==
    IF Len(s) < 2 THEN <<>>
    ELSE IF Head(s) = "--- Pagina "
    THEN <<s[2]>> \o MarkerPages(Tail(s))
    ELSE MarkerPages(Tail(s))

---------------------------------------------------------------------------
(* C1 *)

\* C1: if recognition fails on every page of the document, the run fails:
\* perform_ocr returns no text, the session's OCR text stays unset and no
\* extraction request is ever sent for that document.
C1_AllPagesFailedFailsRun ==
    LET pages == OcrPages(TheFile) IN
    (/\ OcrDone
     /\ pages # <<>>
     /\ \A k \in DOMAIN pages : pages[k].kind = "TesseractError")
    => /\ OcrRun.text = None
       /\ ocr_text = None
       /\ ai_run # None => RemoteCalls(ai_run[1]) = {}

---------------------------------------------------------------------------
(* C2 *)

C2_Case ==
    LET pages == OcrPages(TheFile) IN
    /\ OcrDone
    /\ TheFile.type = PdfType
    /\ Len(pages) >= 2
    /\ \A k \in DOMAIN pages : ~IsEngineMissing(pages[k])
    /\ \E k \in DOMAIN pages : IsPageFailure(pages[k])
    /\ \E k \in DOMAIN pages : IsRecognized(pages[k])

\* C2 as stated: with a failed page k and a recognized page, perform_ocr
\* completes, recognizes every page, and its non-empty combined text contains
\* the text of every recognized page.
C2_TextOfEveryRecognizedPage ==
    LET pages == OcrPages(TheFile) IN
    C2_Case
    => /\ OcrRun.text # None
       /\ RecognizedCalls(OcrRun.calls) = UpTo(Len(pages))
       /\ OcrRun.text[1] # <<>>
       /\ \A j \in DOMAIN pages :
            IsRecognized(pages[j]) => Contains(OcrRun.text[1], pages[j].text)

\* C2 amended: ... the combined text contains, for every recognized page, the
\* page's marker followed by its text, except that whitespace at the very
\* end of the combined text (the end of the last page's entry) is trimmed.
C2_TextUpToFinalTrim ==
    LET pages == OcrPages(TheFile) IN
    C2_Case
    => /\ OcrRun.text # None
       /\ RecognizedCalls(OcrRun.calls) = UpTo(Len(pages))
       /\ OcrRun.text[1] # <<>>
       /\ \A j \in DOMAIN pages :
            IsRecognized(pages[j])
            => Contains(OcrRun.text[1],
                        IF j = Len(pages)
                        THEN RStrip(PageMarker(j) \o <<"\n">> \o pages[j].text)
                        ELSE PageMarker(j) \o <<"\n">> \o pages[j].text)

C2_Witness ==
    LET pages == OcrPages(TheFile) IN
    /\ C2_Case
    /\ Len(pages) = 3
    /\ IsRecognized(pages[1]) /\ pages[1].text = <<"a">>
    /\ IsPageFailure(pages[2])
    /\ IsRecognized(pages[3]) /\ pages[3].text = <<"a", " ">>
    /\ OcrRun.text # None

---------------------------------------------------------------------------
(* C3 *)

\* a multi-page PDF of which exactly one page throws and all others succeed
C3_Case ==
    LET pages == OcrPages(TheFile) IN
    /\ OcrDone
    /\ TheFile.type = PdfType
    /\ Len(pages) >= 2
    /\ Cardinality({k \in DOMAIN pages : IsPageFailure(pages[k])}) = 1
    /\ \A k \in DOMAIN pages : IsPageFailure(pages[k]) \/ IsRecognized(pages[k])

\* C3 as stated: the combined text holds markers for the successful pages
\* only; the failed page contributes no marker.
C3_NoMarkerForFailedPage ==
    LET pages == OcrPages(TheFile) IN
    C3_Case
    => /\ OcrRun.text # None
       /\ \A k \in DOMAIN pages :
            IF IsRecognized(pages[k])
            THEN Contains(OcrRun.text[1], PageMarker(k))
            ELSE ~Contains(OcrRun.text[1], <<"--- Pagina ", Digit(k)>>)

\* C3 amended: the combined text holds one marker per page, in page order:
\* the page marker (followed by the page's text) for each successful page,
\* and for the failed page the error marker "--- Página k: Erro no OCR ---"
\* in place of a page marker and text.
C3_ErrorMarkerForFailedPage ==
    LET pages == OcrPages(TheFile) IN
    C3_Case
    => /\ OcrRun.text # None
       /\ MarkerPages(OcrRun.text[1]) = [k \in DOMAIN pages |-> Digit(k)]
       /\ \A k \in DOMAIN pages :
            IF IsRecognized(pages[k])
            THEN /\ Contains(OcrRun.text[1], PageMarker(k))
                 /\ ~Contains(OcrRun.text[1], ErrorEntry(k))
            ELSE /\ Contains(OcrRun.text[1], ErrorEntry(k))
                 /\ ~Contains(OcrRun.text[1], PageMarker(k))
                 /\ \/ Contains(OcrRun.text[1], ErrorEntry(k) \o <<"\n", "\n", "--- Pagina ">>)
                    \/ k = Len(pages)

C3_Witness ==
    LET pages == OcrPages(TheFile) IN
    /\ C3_Case
    /\ Len(pages) = 3
    /\ pages[2].kind = "TesseractError"
    /\ pages[1].text = <<"a">>
    /\ pages[3].text = <<"a">>
    /\ Contains(OcrRun.text[1], ErrorEntry(2))

---------------------------------------------------------------------------
(* C4 *)

\* C4: the combined text has one entry per page, in ascending page order,
\* each behind its page marker when the document has more than one page; the
\* combined text of a single-page document holds no marker of any kind,
\* whatever the outcome of recognition.
C4_MarkersOnlyWhenMultiPage ==
    LET pages == OcrPages(TheFile) IN
    (OcrDone /\ OcrRun.text # None /\ pages # <<>>)
    => /\ Len(pages) > 1
            => MarkerPages(OcrRun.text[1]) = [k \in DOMAIN pages |-> Digit(k)]
       /\ Len(pages) = 1
            => \A k \in DOMAIN OcrRun.text[1] : OcrRun.text[1][k] \notin MarkerTokens

---------------------------------------------------------------------------
(* C5 *)

\* C5: when every page yields empty recognized text, for a single image and
\* for a multi-page PDF alike, perform_ocr returns "" and the handler stores
\* "" as the session's OCR text.
C5_AllEmptyGivesEmptyText ==
    LET pages == OcrPages(TheFile) IN
    (/\ OcrDone
     /\ pages # <<>>
     /\ \A k \in DOMAIN pages : IsRecognized(pages[k]) /\ pages[k].text = <<>>)
    => /\ OcrRun.text = Some(<<>>)
       /\ ocr_text = Some(<<>>)

---------------------------------------------------------------------------
(* C6 *)

\* the first page on which the engine binary is found missing, 0 if none
FirstMissing(pages) ==
    LET at == {k \in DOMAIN pages : IsEngineMissing(pages[k])} IN
    IF at = {} THEN 0 ELSE CHOOSE k \in at : \A j \in at : k <= j

\* C6: when the engine is found missing on page i, perform_ocr recognizes no
\* page after i and returns no image and no text, whatever pages 1..i-1
\* yielded; the session's OCR text stays unset.
C6_EngineMissingAborts ==
    LET pages == OcrPages(TheFile)
        i     == FirstMissing(pages)
    IN (OcrDone /\ i > 0)
       => /\ RecognizedCalls(OcrRun.calls) = UpTo(i)
          /\ OcrRun.text = None
          /\ OcrRun.image = None
          /\ ocr_text = None

C6_Witness ==
    LET pages == OcrPages(TheFile) IN
    /\ OcrDone
    /\ Len(pages) = 3
    /\ IsRecognized(pages[1]) /\ pages[1].text = <<"a">>
    /\ FirstMissing(pages) = 2
    /\ OcrRun.text = None

---------------------------------------------------------------------------
(* C7 *)

\* C7: for a declared type that is neither a supported image type nor PDF,
\* perform_ocr returns no image and no text and has called neither the image
\* decoder, nor the PDF rasterizer, nor the OCR engine.
C7_UnsupportedBeforeAnyEngine ==
    (OcrDone /\ TheFile.type \notin {"image/png", "image/jpeg", "image/jpg",
                                     "application/pdf"})
    => /\ OcrRun.image = None
       /\ OcrRun.text = None
       /\ OcrRun.calls = <<>>
       /\ ocr_text = None

C7_Witness ==
    /\ OcrDone
    /\ TheFile.type = "image/gif"
    /\ OcrRun.calls = <<>>
    /\ OcrRun.text = None

---------------------------------------------------------------------------
(* C8 *)

C8_Case ==
    /\ OcrDone
    /\ TheFile.type = PdfType
    /\ TheFile.bytes.raster = "ok"
    /\ TheFile.bytes.pages = <<>>

\* what perform_ocr returns to its caller
Returned(r) == <<r.image, r.text>>

\* the run of perform_ocr on a PDF whose rasterization raises: "poppler" for
\* the missing engine, "error" for any other failure
RasterFailureRun(r) == perform_ocr(Bytes("corrupt", r, <<>>), PdfType)

---------------------------------------------------------------------------
(* C9 *)

\* a direct call of analyze_text_with_ai has returned
AnalyzeDone == uploaded_file = None /\ ai_args # None /\ ai_run # None

AiArgs == ai_args[1]

AiRun == ai_run[1]

MissingCredentialError == ErroDict("Chave da API do Gemini nao fornecida.")

InsufficientInputError ==
    ErroDict("Texto de entrada invalido ou muito curto para analise.")

LibraryMissingError ==
    ErroDict("Biblioteca 'google-generativeai' nao esta instalada.")

\* the text is empty, not a string, or shorter than 10 characters once trimmed
IsInsufficient(t) ==
    \/ t.type # "str"
    \/ t.s = <<>>
    \/ CharLen(Strip(t.s)) < 10

\* C9 as stated: an empty credential gives the missing-credential error, and
\* (with a credential) an empty, non-string or too short text gives the
\* insufficient-input error; in both cases nothing is configured or sent.
C9_PreconditionsFirst ==
    AnalyzeDone
    => /\ AiArgs.api_key = ""
            => AiRun.value = MissingCredentialError /\ AiRun.calls = <<>>
       /\ (AiArgs.api_key # "" /\ IsInsufficient(AiArgs.text))
            => AiRun.value = InsufficientInputError /\ AiRun.calls = <<>>

\* C9 amended: the checks run in the order library, credential, text.  When
\* the client library could not be imported the library-missing error is
\* returned; otherwise an empty credential gives the missing-credential
\* error, and otherwise an empty, non-string or too short text gives the
\* insufficient-input error; in all three cases nothing is configured or sent.
C9_PreconditionsAfterLibraryCheck ==
    AnalyzeDone
    => /\ ~AiArgs.env.genai
            => AiRun.value = LibraryMissingError /\ AiRun.calls = <<>>
       /\ (AiArgs.env.genai /\ AiArgs.api_key = "")
            => AiRun.value = MissingCredentialError /\ AiRun.calls = <<>>
       /\ (AiArgs.env.genai /\ AiArgs.api_key # "" /\ IsInsufficient(AiArgs.text))
            => AiRun.value = InsufficientInputError /\ AiRun.calls = <<>>

C9_Witness ==
    /\ AnalyzeDone
    /\ AiArgs.env.genai
    /\ AiArgs.api_key # ""
    /\ AiArgs.text = PyStr(Padded(1, 9, 0))
    /\ AiRun.value = InsufficientInputError
    /\ AiRun.calls = <<>>

---------------------------------------------------------------------------
(* C10 *)

\* the call passes every check before the request is sent
ReachesService ==
    /\ AnalyzeDone
    /\ AiArgs.env.genai
    /\ AiArgs.api_key # ""
    /\ ~IsInsufficient(AiArgs.text)
    /\ AiArgs.env.configure = "ok"

IsTransient(o) ==
    o.kind = "error" /\ o.error \in {"ResourceExhausted", "DeadlineExceeded", "Exception"}

QuotaTwiceThenValid ==
    /\ ReachesService
    /\ Len(AiArgs.env.service) >= 3
    /\ AiArgs.env.service[1] = ServiceError("ResourceExhausted")
    /\ AiArgs.env.service[2] = ServiceError("ResourceExhausted")
    /\ AiArgs.env.service[3] = Response("text", ValidJson)

\* C10 as stated: quota-exceeded on the first two attempts and a valid
\* response on the third: the run succeeds with the third response.
C10_SucceedsOnThirdAttempt ==
    QuotaTwiceThenValid
    => AiRun.value = Dict([k \in {"cpf"} |-> "\"123\""])

\* C10 amended: transient failures are not retried: the service is called
\* exactly once per invocation, and a quota-exceeded, timeout or transient
\* network failure of that one call ends the run with an error result,
\* whatever a later attempt would have returned.
C10_SingleAttemptNoRetry ==
    ReachesService
    => /\ Cardinality(RemoteCalls(AiRun)) = 1
       /\ IsTransient(AiArgs.env.service[1]) => HasErro(AiRun.value)
       /\ AiArgs.env.service[1] = Response("text", ValidJson)
            => AiRun.value = Dict([k \in {"cpf"} |-> "\"123\""])

C10_Witness ==
    /\ QuotaTwiceThenValid
    /\ HasErro(AiRun.value)
    /\ Cardinality(RemoteCalls(AiRun)) = 1

---------------------------------------------------------------------------
(* C11 *)

IsNonRetriable(o) ==
    o.kind = "error" /\ o.error \in {"PermissionDenied", "InvalidArgument", "NotFound"}

\* C11: when the service answers the request with a non-retriable error
\* (permission denied, invalid argument, model not found), the call returns an
\* error result after exactly one generate_content call: no retry is made
\* and the outcome never holds extracted fields.
C11_NonRetriableFailsAtOnce ==
    (ReachesService /\ IsNonRetriable(AiArgs.env.service[1]))
    => /\ Cardinality(RemoteCalls(AiRun)) = 1
       /\ HasErro(AiRun.value)
       /\ DOMAIN AiRun.value.items = {"Erro"}

C11_Witness ==
    /\ ReachesService
    /\ Len(AiArgs.env.service) >= 2
    /\ AiArgs.env.service[1] = ServiceError("PermissionDenied")
    /\ AiArgs.env.service[2] = Response("text", ValidJson)
    /\ HasErro(AiRun.value)
    /\ Cardinality(RemoteCalls(AiRun)) = 1

---------------------------------------------------------------------------
(* C12 *)

\* C12: every call of analyze_text_with_ai ends: the request is sent with a
\* timeout, so a call whose request is out can always take its next step,
\* the answer or the timeout error.
C12_WaitingCallCanEnd ==
    \A r \in RunIds :
        runs[r].pc = "waiting"
        => /\ runs[r].request[1].timeout # None
           /\ ENABLED RunStep(r)

---------------------------------------------------------------------------
(* C19 *)

\* C19: when two calls with different credentials interleave in one
\* process, the request of each is made with that call's own credential.
C19_RequestUnderOwnCredential ==
    \A r \in RunIds :
        runs[r].request # None => runs[r].request[1].key = runs[r].api_key

---------------------------------------------------------------------------
(* C13 *)

\* the response text of the call
ResponseText == AiArgs.env.service[1].text

\* what analyze_text_with_ai returns for the response text c
ParsedAs(c) == handle_outcome(Response("text", c), AiRun.calls).value

\* C13: a response made of a content c wrapped in one fenced code block,
\* with or without a tag after the opening fence, is parsed to the same
\* result as c unwrapped, and stripping an unwrapped response leaves it as
\* it is (up to the blanks around it).
C13_FencedParsesAsUnwrapped ==
    AnalyzeDone =>
      \A c \in Contents :
        /\ \A tag \in FenceTags :
             ResponseText = Wrapped(tag, c) => AiRun.value = ParsedAs(c)
        /\ ResponseText = c
             => strip_close_fence(strip_open_fence(ResponseText)) = Strip(c)

---------------------------------------------------------------------------
(* The analyze handler and the page, C14 to C18 *)

\* the analyze button has been pressed
Analyzed == uploaded_file # None /\ ai_run # None

\* ... and the service has answered the request with a text
Answered ==
    /\ Analyzed
    /\ RemoteCalls(AiRun) # {}
    /\ AiArgs.env.service[1].kind = "response"
    /\ AiArgs.env.service[1].via = "text"

RawText == AiArgs.env.service[1].text

\* the JSON value of the answer, once trimmed and taken out of its fence
Parsed == json_loads(strip_close_fence(strip_open_fence(RawText)))

IsObject == Parsed.ok /\ Parsed.value.kind = "dict"

\* the schema keys to which the object v gives a value that is not null
NonNullSchemaKeys(v) == {k \in SchemaKeys \cap DOMAIN v.items : v.items[k] # "null"}

\* what the page shows of the outcome of the analysis
Page == render(structured_data)

\* the page shows the outcome of the last analysis
PageOfRun == structured_data # None /\ structured_data[1] = AiRun.value

\* C14: an answer that parses as an object with no non-null schema field is
\* reported as a success with zero fields; an answer that does not parse as
\* an object (no JSON, or a JSON array, string, number or null) gives an error
\* result and is never reported as a successful analysis.
C14_UnusableIsNeverSuccess ==
    Answered =>
      /\ (IsObject /\ NonNullSchemaKeys(Parsed.value) = {} /\ PageOfRun)
           => /\ report = Some("success")
              /\ Page.branch = "fields"
              /\ Page.found_count = 0
      /\ ~IsObject
           => /\ report = Some("error")
              /\ HasErro(AiRun.value)

---------------------------------------------------------------------------
(* C15 *)

Malformed == Answered /\ ~Parsed.ok

\* C15 as stated: when the answer cannot be parsed, the error result returned
\* and stored is not a fixed message.
C15_ErrorRetainsRawText ==
    Malformed
    => /\ AiRun.value # ErroDict(DecodeFailure)
       /\ PageOfRun => structured_data[1] # ErroDict(DecodeFailure)

\* C15: when the answer cannot be parsed, the result returned and stored is
\* the fixed decode-failure message; the response text is not in it but is
\* shown to the user by the call itself: trimmed (and without the fence the
\* call removes), or a placeholder when nothing is left of it.
C15_RawTextShownNotReturned ==
    Malformed
    => /\ AiRun.value = ErroDict(DecodeFailure)
       /\ report = Some("error")
       /\ structured_data # None => structured_data = Some(ErroDict(DecodeFailure))
       /\ AiRun.shown # None
       /\ IF Strip(RawText) = <<>>
          THEN AiRun.shown[1] = NoTextCaptured
          ELSE /\ AiRun.shown[1] # <<>>
               /\ Contains(RawText, AiRun.shown[1])
               /\ "[fence]" \notin {RawText[i] : i \in DOMAIN RawText}
                    => AiRun.shown[1] = Strip(RawText)

C15_Witness ==
    /\ Malformed
    /\ RawText = <<" ", "x", "\n">>
    /\ AiRun.shown = Some(<<"x">>)
    /\ structured_data = Some(ErroDict(DecodeFailure))

---------------------------------------------------------------------------
(* C16 *)

\* the page lists the fields of a response object
FieldsListed == structured_data # None /\ Page.branch = "fields"

Shown == structured_data[1].items

MissingSet == {Page.missing_keys[i] : i \in DOMAIN Page.missing_keys}

\* C16 as stated: N schema keys with non-null values (falsy ones included) are
\* reported as N fields found and 9 - N missing.
C16_NonNullFoundRestMissing ==
    FieldsListed
    => LET n == Cardinality(NonNullSchemaKeys(structured_data[1])) IN
       /\ Page.found_count = n
       /\ Len(Page.missing_keys) = Cardinality(SchemaKeys) - n
       /\ NonNullSchemaKeys(structured_data[1]) \cup MissingSet = SchemaKeys

\* C16: the fields found are the keys of the response whose value is truthy
\* (null, 0, false and the empty string are shown but not counted); the
\* missing keys are the schema keys absent from the response, each once, so a
\* schema key returned as null is neither found nor missing, and the schema
\* keys of the response together with the missing ones are the schema keys.
C16_TruthyFoundAbsentMissing ==
    FieldsListed
    => /\ Page.found_count =
            Cardinality({f \in Page.fields : f.value \notin {"", "0", "False"}})
       /\ MissingSet = SchemaKeys \ DOMAIN Shown
       /\ Len(Page.missing_keys) = Cardinality(MissingSet)
       /\ (SchemaKeys \cap DOMAIN Shown) \cup MissingSet = SchemaKeys
       /\ {f.key : f \in Page.fields} = DOMAIN Shown
       /\ \A k \in DOMAIN Shown :
            Shown[k] \in {"null", "\"\"", "0", "false"}
            => Page.found_count <= Cardinality(DOMAIN Shown) - 1

C16_Witness ==
    /\ FieldsListed
    /\ Shown = Items2("cpf", "\"123\"", "nacionalidade", "null")
    /\ Page.found_count = 1
    /\ Len(Page.missing_keys) = 7

---------------------------------------------------------------------------
(* C17 *)

\* the object v without the keys that are not in the schema
SchemaPart(v) == Dict([k \in SchemaKeys \cap DOMAIN v.items |-> v.items[k]])

\* C17: keys of the response that are not in the schema are ignored: the
\* outcome reported, the fields shown and the number of fields found are
\* those of the same response without these keys.
C17_UnknownKeysIgnored ==
    (Answered /\ IsObject /\ PageOfRun)
    => /\ report = Some(handler_report(SchemaPart(Parsed.value)))
       /\ Page.fields = render(Some(SchemaPart(Parsed.value))).fields
       /\ Page.found_count = render(Some(SchemaPart(Parsed.value))).found_count

---------------------------------------------------------------------------
(* C18 *)

\* a press of the analyze button that ends in a failure
FailingAnalyzeStep ==
    /\ \E env \in SessionEnvs : AnalyzeButton(env)
    /\ report' = Some("error")

\* C18: a failing analysis leaves the OCR text of the session as it was and
\* available, and its result is an error without extracted fields: the page
\* never lists fields for a result reported as an error.
C18_FailureKeepsOcrText ==
    [][FailingAnalyzeStep
       => /\ ocr_text' = ocr_text
          /\ ocr_text' # None
          /\ HasErro(ai_run'[1].value)
          /\ render(structured_data').branch # "fields"]_vars

C18_Witness ==
    /\ Analyzed
    /\ RemoteCalls(AiRun) # {}
    /\ report = Some("error")
    /\ ocr_text # None
    /\ ocr_text = Some(AiArgs.text.s)
    /\ structured_data = Some(AiRun.value)
    /\ HasErro(AiRun.value)

---------------------------------------------------------------------------
(* C20 *)

\* C20: for a supported image file that can be decoded, whatever its colour
\* mode, perform_ocr hands exactly one page image to the OCR engine, and that
\* image (the one it also returns for display) is in RGB.
C20_OneRgbImageToOcr ==
    (OcrDone /\ TheFile.type \in ImageTypes /\ TheFile.bytes.image # "corrupt")
    => /\ RecognizedCalls(OcrRun.calls) = <<1>>
       /\ OcrRun.image # None => OcrRun.image[1].mode = "RGB"

---------------------------------------------------------------------------
(* C21 *)

\* the OCR text the session would hold had the OCR button been pressed on
\* document d
TextOf(d) == stored_ocr_text(perform_ocr(d.bytes, d.type).text)

\* C21: whatever the uploads and button presses so far, the OCR text of the
\* session is the text of the document now in the uploader, and the
\* structured data shown comes from an analysis of that text.
C21_ResultsOfCurrentDocument ==
    uploaded_file # None
    => /\ ocr_text # None => ocr_text = TextOf(TheFile)
       /\ structured_data # None
            => /\ ai_args # None
               /\ Some(ai_args[1].text.s) = TextOf(TheFile)

---------------------------------------------------------------------------
(* C22 *)

\* the OCR text of the session is the text result of the last OCR run
TextFromOcrRun ==
    /\ ocr_run # None
    /\ ocr_run[1].text # None
    /\ ocr_text = stored_ocr_text(ocr_run[1].text)

\* C22: in every state structured data is set only if OCR text is set, and
\* the OCR text that is set is the text result of an OCR run; a press of the
\* analyze button happens only with such a text; a press of the OCR button
\* leaves no structured data, and leaves no OCR text either when the run
\* fails.
C22_DataOnlyWithOcrText ==
    /\ [](/\ structured_data # None => ocr_text # None
          /\ ocr_text # None => TextFromOcrRun)
    /\ [][/\ (\E env \in HandlerEnvs : AnalyzeButton(env)) => TextFromOcrRun
          /\ OcrButton
               => /\ structured_data' = None
                  /\ ocr_run'[1].text = None => ocr_text' = None]_vars

\* an OCR run that failed after an analysis had stored its result
C22_Witness ==
    /\ uploaded_file # None
    /\ ai_run # None
    /\ ~HasErro(ai_run[1].value)
    /\ ocr_run # None
    /\ ocr_run[1].text = None
    /\ ocr_text = None
    /\ structured_data = None
    /\ perform_ocr(TheFile.bytes, TheFile.type).text = None

====
